---- MODULE Spec2Model ----
(***************************************************************************)
(* Warung Madura storefront: the backend tables with their row-level       *)
(* security policies and triggers (supabase/migrations), and the page      *)
(* handlers that read and write them (src/pages: Cart, ProductDetail,      *)
(* Admin, Index, Orders).  A request to the backend, its execution under   *)
(* the caller's policies and the receipt of the response are one atomic    *)
(* step.                                                                   *)
(* handleCheckout is one step per request, so that its requests interleave *)
(* with the other handlers; the shorter handlers (updateQuantity,          *)
(* removeItem, the Admin handlers, the page fetches) are one step each,    *)
(* their trailing fetch included.  addToCart is given twice: as one step   *)
(* (AddToCart) where a session runs one call at a time, and request by     *)
(* request (addToCartSelectCart .. addToCartWrite) where two tabs of a     *)
(* session run it side by side.  A handler is modelled with the arguments  *)
(* its code accepts: the disabled attribute of the button that calls it is *)
(* not part of it.                                                         *)
(***************************************************************************)
EXTENDS Integers, Sequences, FiniteSets, TLC

(* ---------------------------- bounds ----------------------------------- *)
MaxStock == 2
MaxQty == 2
MaxOrders == 1
MaxTime == 1

(* ------------------------ identities, catalogue ------------------------ *)
Users == {"ani", "budi"}
Sessions == {"s1", "s2"}
UserOf(s) == IF s = "s1" THEN "ani" ELSE "budi"

ProductIds == {"p1", "p2"}
NewProductIds == {"p3"}
NoProduct == "null"
CategoryIds == {"c1", "c2"}
NoCategory == "null"
NoCart == 0
NoOrder == 0

Statuses == {"pending", "paid", "processing", "shipped", "completed", "cancelled"}

(* Texts are sequences of one-character strings. *)
Space == " "
Lower(c) == IF c = "A" THEN "a" ELSE IF c = "B" THEN "b" ELSE c
ToLower(t) == [i \in 1..Len(t) |-> Lower(t[i])]

RECURSIVE TrimStart(_)
TrimStart(t) == IF t # <<>> /\ Head(t) = Space THEN TrimStart(Tail(t)) ELSE t
RECURSIVE TrimEnd(_)
TrimEnd(t) ==
  IF t # <<>> /\ t[Len(t)] = Space THEN TrimEnd(SubSeq(t, 1, Len(t) - 1)) ELSE t
Trim(t) == TrimEnd(TrimStart(t))

(* name.toLowerCase().replace(/\s+/g, "-") *)
RECURSIVE ReplaceSpaceRuns(_)
ReplaceSpaceRuns(t) ==
  IF t = <<>> THEN <<>>
  ELSE IF Head(t) = Space THEN <<"-">> \o ReplaceSpaceRuns(TrimStart(t))
  ELSE <<Head(t)>> \o ReplaceSpaceRuns(Tail(t))
Slug(name) == ReplaceSpaceRuns(ToLower(name))

Addresses == {<<>>, <<Space>>, <<Space, "J">>}

(* decimal digits of a natural number *)
DigitChars == <<"0", "1", "2", "3", "4", "5", "6", "7", "8", "9">>
RECURSIVE Digits(_)
Digits(n) ==
  IF n < 10 THEN <<DigitChars[n + 1]>>
  ELSE Digits(n \div 10) \o <<DigitChars[(n % 10) + 1]>>

(* Number.prototype.toString of an integer *)
toString(n) == IF n < 0 THEN <<"-">> \o Digits(0 - n) ELSE Digits(n)

(* parseInt: an optional sign and the longest run of digits that follows;  *)
(* the result is NaN when there is no digit.  parseFloat reads the same    *)
(* number from a text without a decimal point.                             *)
IsDigit(c) == \E i \in 1..10 : DigitChars[i] = c
DigitValue(c) == (CHOOSE i \in 1..10 : DigitChars[i] = c) - 1
RECURSIVE LeadingDigits(_)
LeadingDigits(t) ==
  IF t # <<>> /\ IsDigit(Head(t)) THEN <<Head(t)>> \o LeadingDigits(Tail(t)) ELSE <<>>
RECURSIVE DigitsValue(_)
DigitsValue(d) ==
  IF d = <<>> THEN 0 ELSE DigitsValue(SubSeq(d, 1, Len(d) - 1)) * 10 + DigitValue(d[Len(d)])
Unsigned(t) == IF t # <<>> /\ Head(t) \in {"-", "+"} THEN Tail(t) ELSE t
NaN == "NaN"
IsNaN(t) == LeadingDigits(Unsigned(TrimStart(t))) = <<>>
parseInt(t) ==
  LET u == TrimStart(t)
      v == DigitsValue(LeadingDigits(Unsigned(u)))
  IN  IF IsNaN(t) THEN NaN ELSE IF Head(u) = "-" THEN 0 - v ELSE v
parseFloat(t) == parseInt(t)

SetMin(S) == CHOOSE x \in S : \A y \in S : x <= y
RECURSIVE SortById(_)
SortById(rows) ==
  IF rows = {} THEN <<>>
  ELSE LET m == CHOOSE r \in rows : \A q \in rows : r.id <= q.id
       IN  <<m>> \o SortById(rows \ {m})
RECURSIVE SumSeq(_)
SumSeq(q) == IF q = <<>> THEN 0 ELSE Head(q) + SumSeq(Tail(q))

(* ------------------------------ state ---------------------------------- *)
VARIABLES
  products,    \* public.products: product id -> row
  carts,       \* public.carts: set of rows
  cart_items,  \* public.cart_items: set of rows
  orders,      \* public.orders: set of rows
  order_items, \* public.order_items: set of rows
  user_roles,  \* public.user_roles: set of rows
  now,         \* the clock read by Date.now() and by now()
  cartPage,    \* per session: the Cart component's state
  checkout,    \* per session: the handleCheckout invocation in flight
  outcome,     \* what the last handler reported: its toast, or its silent return
  indexPage,   \* the Index component's state
  ordersPage,  \* per session: the Orders component's state and its last download
  adding,      \* per tab: the addToCart invocation in flight
  adminPage    \* the Admin component's state: product list, form, product in edit

dbVars == <<products, carts, cart_items, orders, order_items, user_roles>>
vars == <<products, carts, cart_items, orders, order_items, user_roles, now,
          cartPage, checkout, outcome, indexPage, ordersPage, adding, adminPage>>

(* --------------------- policies and constraints ------------------------ *)
has_role(uid, role) == \E r \in user_roles : r.user_id = uid /\ r.role = role

ProductsWritePolicy_AnyUser(uid) == has_role(uid, "user")

ProductsWritePolicy(uid) == has_role(uid, "admin")
CartsPolicy(uid, row) == uid = row.user_id
CartItemsPolicy(uid, row) ==
  \E c \in carts : c.id = row.cart_id /\ c.user_id = uid
OrdersInsertCheck(uid, row) == uid = row.user_id
OrdersSelectPolicy_AnyUser(uid, row) == uid = row.user_id \/ has_role(uid, "user")

OrdersSelectPolicy(uid, row) == uid = row.user_id \/ has_role(uid, "admin")
OrdersUpdatePolicy_AnyUser(uid) == has_role(uid, "user")

OrdersUpdatePolicy(uid) == has_role(uid, "admin")
OrderItemsSelectPolicy(uid, row) ==
  \/ \E o \in orders : o.id = row.order_id /\ o.user_id = uid
  \/ has_role(uid, "admin")
OrderItemsInsertCheck(uid, row) ==
  \E o \in orders : o.id = row.order_id /\ o.user_id = uid
OrderItemsProductExists(row, P) == row.product_id \in DOMAIN P

CartsUnique_None(rows) == TRUE
CartItemsUnique_None(rows) == TRUE

CartsUnique(rows) ==
  \A a, b \in rows : a.user_id = b.user_id => a = b
CartItemsUnique(rows) ==
  \A a, b \in rows : (a.cart_id = b.cart_id /\ a.product_id = b.product_id) => a = b
OrderNumberUnique_None(rows) == TRUE

(* order_number TEXT UNIQUE *)
OrderNumberUnique(rows) ==
  \A a, b \in rows : a.order_number = b.order_number => a = b

update_updated_at_column_Missing(row) == row

(* update_updated_at_column: BEFORE UPDATE, NEW.updated_at = now() *)
update_updated_at_column(row) == [row EXCEPT !.updated_at = now]

(* Row ids are generated by the store; a fresh id is one that no row and   *)
(* no page still holds.                                                    *)
HeldItemIds ==
  {r.id : r \in cart_items}
    \cup UNION {{cartPage[s].cartItems[i].id : i \in 1..Len(cartPage[s].cartItems)}
                  : s \in Sessions}
FreshItemId == SetMin((1..(Cardinality(HeldItemIds) + 1)) \ HeldItemIds)
FreshCartId == Cardinality(carts) + 1
FreshOrderId == Cardinality(orders) + 1
FreshOrderItemId(k) == Cardinality(order_items) + k

(* ------------------------------ Cart page ------------------------------ *)
EmptyCartPage == [cartId |-> NoCart, cartItems |-> <<>>]

IdleCheckout ==
  [pc |-> "idle", cartId |-> NoCart, cartItems |-> <<>>,
   order_id |-> NoOrder, idx |-> 0, log |-> <<>>, stock0 |-> <<>>]

(* select cart_items.*, products(id, name, price, stock) where cart_id = id *)
JoinProduct(r, P) ==
  [id |-> r.id, quantity |-> r.quantity,
   products |-> [id |-> r.product_id, name |-> P[r.product_id].name,
                 price |-> P[r.product_id].price,
                 stock |-> P[r.product_id].stock]]
FetchedItems(uid, cid, C, I, P) ==
  LET rows == {r \in I : r.cart_id = cid
                          /\ \E c \in C : c.id = r.cart_id /\ c.user_id = uid}
      sorted == SortById(rows)
  IN  [i \in 1..Len(sorted) |-> JoinProduct(sorted[i], P)]

(* fetchCart: the page after it has read the tables C (carts), I            *)
(* (cart_items) and P (products); it returns early, leaving the page as it *)
(* is, when the identity has no cart row.                                  *)
fetchCart(s, page, C, I, P) ==
  LET mine == {c \in C : c.user_id = UserOf(s) /\ CartsPolicy(UserOf(s), c)}
  IN  IF mine = {} THEN page
      ELSE LET c == CHOOSE c \in mine : TRUE
           IN  [page EXCEPT !.cartId = c.id,
                            !.cartItems = FetchedItems(UserOf(s), c.id, C, I, P)]

(* --------------------- Orders page, addToCart call --------------------- *)
NoInvoice == <<>>
EmptyOrdersPage ==
  [orders |-> <<>>, invoice |-> NoInvoice, invoiceOf |-> [id |-> NoOrder]]

(* the Admin page: the product list it fetched, the product form (every   *)
(* field a text, the category an id or the empty string) and the id of    *)
(* the product in edit                                                     *)
EmptyForm ==
  [name |-> <<>>, slug |-> <<>>, description |-> <<>>, price |-> <<>>,
   stock |-> <<>>, category_id |-> "", dosage |-> <<>>]
EmptyAdminPage ==
  [products |-> [p \in {} |-> 0], editingProduct |-> NoProduct, productForm |-> EmptyForm]

(* Two tabs of the same browser session run addToCart side by side. *)
Tabs == {"t1", "t2"}
SessionOf(t) == "s1"
NoItem == [id |-> 0, quantity |-> 0]
IdleAdd == [pc |-> "idle", product |-> NoProduct, quantity |-> 0,
            cart |-> NoCart, existingItem |-> NoItem]

(* handle_new_user gives every identity the role user; the admin role is  *)
(* granted in the store, to budi and possibly to ani.  The tables start    *)
(* as the migration leaves them, with two of the sample products and       *)
(* their stock scaled down to the bounds.  As for the sample product      *)
(* 'Bodrex Flu & Batuk', the slug of the second is not the one its name    *)
(* would be given by the product form.                                     *)
RoleRows(admins) ==
  {[user_id |-> u, role |-> "user"] : u \in Users}
    \cup {[user_id |-> u, role |-> "admin"] : u \in admins}

Init ==
  /\ products = [p \in ProductIds |->
        IF p = "p1"
        THEN [name |-> <<"A", "b">>, slug |-> <<"a", "b">>,
              description |-> <<"d", "1">>, price |-> 8000,
              stock |-> MaxStock, category_id |-> "c1", dosage |-> <<"3", "x">>,
              is_popular |-> FALSE]
        ELSE [name |-> <<"b", "a">>, slug |-> <<"b">>,
              description |-> <<"d", "2">>, price |-> 12000,
              stock |-> 1, category_id |-> "c2", dosage |-> <<"1", "x">>,
              is_popular |-> TRUE]]
  /\ carts = {}
  /\ cart_items = {}
  /\ orders = {}
  /\ order_items = {}
  /\ now = 0
  /\ cartPage = [s \in Sessions |-> EmptyCartPage]
  /\ checkout = [s \in Sessions |-> IdleCheckout]
  /\ outcome = "none"
  /\ \E admins \in {{"budi"}, {"ani", "budi"}} : user_roles = RoleRows(admins)
  /\ indexPage = [searchQuery |-> <<>>, selectedCategory |-> NoCategory,
                  products |-> <<>>]
  /\ ordersPage = [s \in Sessions |-> EmptyOrdersPage]
  /\ adding = [t \in Tabs |-> IdleAdd]
  /\ adminPage = EmptyAdminPage

(* ------------------------- ProductDetail page -------------------------- *)
(* addToCart in a browser that is not signed in (user is null): the toast, *)
(* navigate("/auth"), return; p may be NoProduct, the page not yet loaded  *)
addToCartSignedOut(p, q) ==
  /\ outcome' = "Silakan login terlebih dahulu"
  /\ UNCHANGED <<dbVars, now, cartPage, checkout, indexPage, ordersPage, adding, adminPage>>

AddToCart_SetsQuantity(s, p, q, failAt) ==
  LET uid == UserOf(s)
      mine == {c \in carts : c.user_id = uid /\ CartsPolicy(uid, c)}
      newCart == [id |-> FreshCartId, user_id |-> uid]
      cartFails == mine = {} /\ (failAt = "carts" \/ ~CartsUnique(carts \cup {newCart}))
      carts1 == IF mine = {} /\ ~cartFails THEN carts \cup {newCart} ELSE carts
      cart == IF mine = {} THEN newCart ELSE CHOOSE c \in mine : TRUE
      existing == {r \in cart_items : r.cart_id = cart.id /\ r.product_id = p}
      items1 == IF existing = {}
                THEN cart_items \cup {[id |-> FreshItemId, cart_id |-> cart.id,
                                       product_id |-> p, quantity |-> q]}
                ELSE {IF r \in existing THEN [r EXCEPT !.quantity = q] ELSE r
                        : r \in cart_items}
      itemFails == failAt = "cart_items" \/ ~CartItemsUnique(items1)
  IN  /\ p \in DOMAIN products
      /\ products[p].stock # 0
      /\ q >= 1 /\ q <= products[p].stock
      /\ carts' = carts1
      /\ IF cartFails \/ itemFails
         THEN /\ cart_items' = cart_items
              /\ cartPage' = cartPage
              /\ outcome' = "Gagal menambahkan ke keranjang"
         ELSE /\ cart_items' = items1
              /\ cartPage' = [cartPage EXCEPT
                    ![s] = fetchCart(s, EmptyCartPage, carts1, items1, products)]
              /\ outcome' = "Produk ditambahkan ke keranjang"
      /\ UNCHANGED <<products, orders, order_items, user_roles, now, checkout, indexPage, ordersPage, adding, adminPage>>

(* addToCart(product p, quantity q): the quantity input is clamped to      *)
(* 1..stock and the button is disabled at stock 0.  failAt names the       *)
(* request that the backend or the network fails, if any.                  *)
AddToCart(s, p, q, failAt) ==
  LET uid == UserOf(s)
      mine == {c \in carts : c.user_id = uid /\ CartsPolicy(uid, c)}
      newCart == [id |-> FreshCartId, user_id |-> uid]
      cartFails == mine = {} /\ (failAt = "carts" \/ ~CartsUnique(carts \cup {newCart}))
      carts1 == IF mine = {} /\ ~cartFails THEN carts \cup {newCart} ELSE carts
      cart == IF mine = {} THEN newCart ELSE CHOOSE c \in mine : TRUE
      existing == {r \in cart_items : r.cart_id = cart.id /\ r.product_id = p}
      newQty == IF existing = {} THEN q
                ELSE (CHOOSE r \in existing : TRUE).quantity + q
      items1 == IF existing = {}
                THEN cart_items \cup {[id |-> FreshItemId, cart_id |-> cart.id,
                                       product_id |-> p, quantity |-> q]}
                ELSE {IF r \in existing THEN [r EXCEPT !.quantity = newQty] ELSE r
                        : r \in cart_items}
      itemFails == failAt = "cart_items" \/ ~CartItemsUnique(items1)
  IN  /\ p \in DOMAIN products
      /\ products[p].stock # 0
      /\ q >= 1 /\ q <= products[p].stock
      /\ newQty <= MaxQty
      /\ carts' = carts1
      /\ IF cartFails \/ itemFails
         THEN /\ cart_items' = cart_items
              /\ cartPage' = cartPage
              /\ outcome' = "Gagal menambahkan ke keranjang"
         ELSE /\ cart_items' = items1
              /\ cartPage' = [cartPage EXCEPT
                    ![s] = fetchCart(s, EmptyCartPage, carts1, items1, products)]
              /\ outcome' = "Produk ditambahkan ke keranjang"
      /\ UNCHANGED <<products, orders, order_items, user_roles, now, checkout, indexPage, ordersPage, adding, adminPage>>

(* addToCart request by request, for the tabs of one browser session: the  *)
(* awaits between its requests are where the other tab's requests fall.    *)
(* .single() yields a row only when the query returns exactly one; the     *)
(* errors of the two selects are not read.                                 *)
addToCartSelectCart(t, p, q, fail) ==
  LET uid == UserOf(SessionOf(t))
      mine == {c \in carts : c.user_id = uid /\ CartsPolicy(uid, c)}
      cart == IF fail \/ Cardinality(mine) # 1 THEN NoCart
              ELSE (CHOOSE c \in mine : TRUE).id
  IN  /\ adding[t].pc = "idle"
      /\ p \in DOMAIN products
      /\ products[p].stock # 0
      /\ q >= 1 /\ q <= products[p].stock
      /\ adding' = [adding EXCEPT ![t] =
            [pc |-> IF cart = NoCart THEN "insert_cart" ELSE "select_item",
             product |-> p, quantity |-> q, cart |-> cart, existingItem |-> NoItem]]
      /\ outcome' = "none"
      /\ UNCHANGED <<dbVars, now, cartPage, checkout, indexPage, ordersPage, adminPage>>

addToCartInsertCart(t, fail) ==
  LET uid == UserOf(SessionOf(t))
      newCart == [id |-> FreshCartId, user_id |-> uid]
      cartError == fail \/ ~CartsPolicy(uid, newCart) \/ ~CartsUnique(carts \cup {newCart})
  IN  /\ adding[t].pc = "insert_cart"
      /\ IF cartError
         THEN /\ outcome' = "Gagal menambahkan ke keranjang"
              /\ adding' = [adding EXCEPT ![t] = IdleAdd]
              /\ UNCHANGED carts
         ELSE /\ carts' = carts \cup {newCart}
              /\ outcome' = "none"
              /\ adding' = [adding EXCEPT ![t].pc = "select_item", ![t].cart = newCart.id]
      /\ UNCHANGED <<products, cart_items, orders, order_items, user_roles, now, cartPage,
                     checkout, indexPage, ordersPage, adminPage>>

addToCartSelectItem(t, fail) ==
  LET uid == UserOf(SessionOf(t))
      call == adding[t]
      existing == {r \in cart_items : /\ r.cart_id = call.cart
                                      /\ r.product_id = call.product
                                      /\ CartItemsPolicy(uid, r)}
      row == CHOOSE r \in existing : TRUE
  IN  /\ call.pc = "select_item"
      /\ adding' = [adding EXCEPT
            ![t].pc = "write",
            ![t].existingItem = IF fail \/ Cardinality(existing) # 1 THEN NoItem
                                ELSE [id |-> row.id, quantity |-> row.quantity]]
      /\ outcome' = "none"
      /\ UNCHANGED <<dbVars, now, cartPage, checkout, indexPage, ordersPage, adminPage>>

(* the update of the line found, or the insert of a new line; then the     *)
(* toast and navigate("/cart"), where the Cart page mounts and fetches     *)
addToCartWrite(t, fail) ==
  LET s == SessionOf(t)
      uid == UserOf(s)
      call == adding[t]
      newQty == call.existingItem.quantity + call.quantity
      updated == {IF r.id = call.existingItem.id /\ CartItemsPolicy(uid, r)
                  THEN [r EXCEPT !.quantity = newQty] ELSE r : r \in cart_items}
      row == [id |-> FreshItemId, cart_id |-> call.cart, product_id |-> call.product,
              quantity |-> call.quantity]
      insertError == \/ ~CartItemsPolicy(uid, row)
                     \/ ~CartItemsUnique(cart_items \cup {row})
                     \/ call.product \notin DOMAIN products
      items1 == IF call.existingItem # NoItem THEN updated ELSE cart_items \cup {row}
  IN  /\ call.pc = "write"
      /\ newQty <= MaxQty
      /\ adding' = [adding EXCEPT ![t] = IdleAdd]
      /\ IF fail \/ (call.existingItem = NoItem /\ insertError)
         THEN /\ outcome' = "Gagal menambahkan ke keranjang"
              /\ UNCHANGED <<cart_items, cartPage>>
         ELSE /\ cart_items' = items1
              /\ outcome' = "Produk ditambahkan ke keranjang"
              /\ cartPage' = [cartPage EXCEPT
                    ![s] = fetchCart(s, EmptyCartPage, carts, items1, products)]
      /\ UNCHANGED <<products, carts, orders, order_items, user_roles, now, checkout,
                     indexPage, ordersPage, adminPage>>

(* ------------------------------ Cart page ------------------------------ *)
(* The Cart component mounts with empty state and runs fetchCart.          *)
OpenCart(s) ==
  /\ cartPage' = [cartPage EXCEPT
        ![s] = fetchCart(s, EmptyCartPage, carts, cart_items, products)]
  /\ outcome' = "none"
  /\ UNCHANGED <<dbVars, now, checkout, indexPage, ordersPage, adding, adminPage>>

(* updateQuantity(itemId, newQuantity) for the i-th line of the page; the  *)
(* update is filtered by the caller's cart_items policy.                   *)
QuantityRejected_Negative(newQuantity) == newQuantity < 0
QuantityRejected(newQuantity) == newQuantity < 1

updateQuantity(s, i, newQuantity, fail) ==
  LET uid == UserOf(s)
      itemId == cartPage[s].cartItems[i].id
      items1 == {IF r.id = itemId /\ CartItemsPolicy(uid, r)
                 THEN [r EXCEPT !.quantity = newQuantity] ELSE r : r \in cart_items}
  IN  /\ i \in 1..Len(cartPage[s].cartItems)
      /\ IF QuantityRejected(newQuantity)
         THEN /\ outcome' = "updateQuantity: return"
              /\ UNCHANGED <<cart_items, cartPage>>
         ELSE IF fail
         THEN /\ outcome' = "Gagal update jumlah"
              /\ UNCHANGED <<cart_items, cartPage>>
         ELSE /\ cart_items' = items1
              /\ cartPage' = [cartPage EXCEPT
                    ![s] = fetchCart(s, @, carts, items1, products)]
              /\ outcome' = "none"
      /\ UNCHANGED <<products, carts, orders, order_items, user_roles, now, checkout, indexPage, ordersPage, adding, adminPage>>

removeItem(s, i, fail) ==
  LET uid == UserOf(s)
      itemId == cartPage[s].cartItems[i].id
      items1 == {r \in cart_items : ~(r.id = itemId /\ CartItemsPolicy(uid, r))}
  IN  /\ i \in 1..Len(cartPage[s].cartItems)
      /\ IF fail
         THEN /\ outcome' = "Gagal menghapus item"
              /\ UNCHANGED <<cart_items, cartPage>>
         ELSE /\ cart_items' = items1
              /\ cartPage' = [cartPage EXCEPT
                    ![s] = fetchCart(s, @, carts, items1, products)]
              /\ outcome' = "Item dihapus"
      /\ UNCHANGED <<products, carts, orders, order_items, user_roles, now, checkout, indexPage, ordersPage, adding, adminPage>>

(* ------------------------------ checkout ------------------------------- *)
calculateTotal_NoQuantity(cartItems) ==
  SumSeq([i \in 1..Len(cartItems) |-> cartItems[i].products.price])

(* calculateTotal: reduce over the page's lines of price * quantity *)
calculateTotal(cartItems) ==
  SumSeq([i \in 1..Len(cartItems) |->
            cartItems[i].products.price * cartItems[i].quantity])

(* Date.now() rendered as the order number *)
OrderNumber(t) == <<"WM", t>>

(* the rows handleCheckout maps the page's lines to *)
OrderItemRows(cartItems, orderId) ==
  {[id |-> FreshOrderItemId(i),
    order_id |-> orderId,
    product_id |-> cartItems[i].products.id,
    product_name |-> cartItems[i].products.name,
    product_price |-> cartItems[i].products.price,
    quantity |-> cartItems[i].quantity,
    subtotal |-> cartItems[i].products.price * cartItems[i].quantity]
      : i \in 1..Len(cartItems)}

AfterItemsInsert_SkipsStock == "clear"

(* the position of handleCheckout after each of its awaits *)
AfterOrderInsert == "order_items"
AfterItemsInsert == "stock"
AfterStockUpdates == "clear"

CheckoutReturnsEarly_NoLineCheck(page) == page.cartId = NoCart
AddressMissing_NoTrim(shippingAddress) == shippingAddress = <<>>

(* the guards of handleCheckout: no cart, no line, or a blank address *)
CheckoutReturnsEarly(page) == page.cartId = NoCart \/ Len(page.cartItems) = 0
AddressMissing(shippingAddress) == Trim(shippingAddress) = <<>>

(* handleCheckout up to and including the order insert.  The handler reads *)
(* the cartId, cartItems and shippingAddress of the render it was created  *)
(* in (shippingAddress is the content of the address field at the click);  *)
(* the two early returns issue no request.                                 *)
CheckoutBegin(s, shippingAddress, fail) ==
  LET uid == UserOf(s)
      page == cartPage[s]
      row == [id |-> FreshOrderId, user_id |-> uid,
              order_number |-> OrderNumber(now),
              total_amount |-> calculateTotal(page.cartItems),
              status |-> "pending", payment_method |-> "cash",
              shipping_address |-> shippingAddress,
              created_at |-> now, updated_at |-> now]
      orderError == fail \/ ~OrdersInsertCheck(uid, row)
                         \/ ~OrderNumberUnique(orders \cup {row})
  IN  /\ checkout[s].pc = "idle"
      /\ IF CheckoutReturnsEarly(page)
         THEN /\ outcome' = "handleCheckout: return"
              /\ checkout' = [checkout EXCEPT ![s] = IdleCheckout]
              /\ UNCHANGED orders
         ELSE IF AddressMissing(shippingAddress)
         THEN /\ outcome' = "Silakan isi alamat pengiriman"
              /\ checkout' = [checkout EXCEPT ![s] = IdleCheckout]
              /\ UNCHANGED orders
         ELSE /\ Cardinality({o \in orders : o.user_id = uid}) < MaxOrders
              /\ IF orderError
                 THEN /\ outcome' = "Gagal membuat pesanan"
                      /\ checkout' = [checkout EXCEPT ![s] = IdleCheckout]
                      /\ UNCHANGED orders
                 ELSE /\ orders' = orders \cup {row}
                      /\ outcome' = "none"
                      /\ checkout' = [checkout EXCEPT ![s] =
                            [pc |-> AfterOrderInsert, cartId |-> page.cartId,
                             cartItems |-> page.cartItems,
                             order_id |-> row.id, idx |-> 1,
                             log |-> <<<<"orders.insert", row.id>>>>,
                             stock0 |-> [p \in DOMAIN products |-> products[p].stock]]]
      /\ UNCHANGED <<products, carts, cart_items, order_items, user_roles, now, cartPage, indexPage, ordersPage, adding, adminPage>>

(* the batch insert of the order items; its error is thrown *)
CheckoutInsertItems(s, fail) ==
  LET uid == UserOf(s)
      co == checkout[s]
      rows == OrderItemRows(co.cartItems, co.order_id)
      itemsError == fail \/ \E r \in rows : \/ ~OrderItemsInsertCheck(uid, r)
                                              \/ ~OrderItemsProductExists(r, products)
  IN  /\ co.pc = "order_items"
      /\ IF itemsError
         THEN /\ outcome' = "Gagal membuat pesanan"
              /\ checkout' = [checkout EXCEPT ![s] = IdleCheckout]
              /\ UNCHANGED order_items
         ELSE /\ order_items' = order_items \cup rows
              /\ outcome' = "none"
              /\ checkout' = [checkout EXCEPT
                    ![s].pc = AfterItemsInsert,
                    ![s].log = Append(co.log, <<"order_items.insert", co.order_id>>)]
      /\ UNCHANGED <<products, carts, cart_items, orders, user_roles, now, cartPage, indexPage, ordersPage, adding, adminPage>>

(* update products set stock = <page stock> - <quantity> where id = ...,   *)
(* executed under the caller's products policy: rows the policy hides are  *)
(* not updated and no error is raised.                                     *)
ProductsStockUpdate(uid, pid, value, P) ==
  IF pid \in DOMAIN P /\ ProductsWritePolicy(uid)
  THEN [P EXCEPT ![pid].stock = value]
  ELSE P

CheckoutUpdateStock_Decrement(s, fail) ==
  LET uid == UserOf(s)
      co == checkout[s]
      item == co.cartItems[co.idx]
      pid == item.products.id
  IN  /\ co.pc = "stock"
      /\ co.idx <= Len(co.cartItems)
      /\ products' = IF fail \/ pid \notin DOMAIN products THEN products
                     ELSE ProductsStockUpdate(uid, pid, products[pid].stock - item.quantity,
                                              products)
      /\ checkout' = [checkout EXCEPT
            ![s].idx = co.idx + 1,
            ![s].pc = IF co.idx = Len(co.cartItems) THEN AfterStockUpdates ELSE "stock",
            ![s].log = Append(co.log, <<"products.update", pid>>)]
      /\ UNCHANGED <<carts, cart_items, orders, order_items, user_roles, now, cartPage,
                     outcome, indexPage, ordersPage, adding, adminPage>>

CheckoutUpdateStock_Throws(s, fail) ==
  LET uid == UserOf(s)
      co == checkout[s]
      item == co.cartItems[co.idx]
      value == item.products.stock - item.quantity
  IN  /\ co.pc = "stock"
      /\ co.idx <= Len(co.cartItems)
      /\ products' = IF fail THEN products
                     ELSE ProductsStockUpdate(uid, item.products.id, value, products)
      /\ checkout' = IF fail THEN [checkout EXCEPT ![s] = IdleCheckout]
                     ELSE [checkout EXCEPT
                        ![s].idx = co.idx + 1,
                        ![s].pc = IF co.idx = Len(co.cartItems) THEN AfterStockUpdates ELSE "stock",
                        ![s].log = Append(co.log, <<"products.update", item.products.id>>)]
      /\ outcome' = IF fail THEN "Gagal membuat pesanan" ELSE outcome
      /\ UNCHANGED <<carts, cart_items, orders, order_items, user_roles, now, cartPage,
                     indexPage, ordersPage, adding, adminPage>>

(* one iteration of the stock loop; the result of the request is not read *)
CheckoutUpdateStock(s, fail) ==
  LET uid == UserOf(s)
      co == checkout[s]
      item == co.cartItems[co.idx]
      value == item.products.stock - item.quantity
  IN  /\ co.pc = "stock"
      /\ co.idx <= Len(co.cartItems)
      /\ products' = IF fail THEN products
                     ELSE ProductsStockUpdate(uid, item.products.id, value, products)
      /\ checkout' = [checkout EXCEPT
            ![s].idx = co.idx + 1,
            ![s].pc = IF co.idx = Len(co.cartItems) THEN AfterStockUpdates ELSE "stock",
            ![s].log = Append(co.log, <<"products.update", item.products.id>>)]
      /\ UNCHANGED <<carts, cart_items, orders, order_items, user_roles, now, cartPage,
                     outcome, indexPage, ordersPage, adding, adminPage>>

CheckoutClearCart_OrderedOnly(s, fail) ==
  LET uid == UserOf(s)
      co == checkout[s]
      ordered == {co.cartItems[i].id : i \in 1..Len(co.cartItems)}
  IN  /\ co.pc = "clear"
      /\ cart_items' = IF fail THEN cart_items
                       ELSE {r \in cart_items :
                               ~(r.id \in ordered /\ CartItemsPolicy(uid, r))}
      /\ checkout' = [checkout EXCEPT ![s] = IdleCheckout]
      /\ cartPage' = [cartPage EXCEPT ![s] = EmptyCartPage]
      /\ outcome' = "Pesanan berhasil dibuat!"
      /\ UNCHANGED <<products, carts, orders, order_items, user_roles, now, indexPage, ordersPage, adding, adminPage>>

(* delete from cart_items where cart_id = cartId (result not read), then   *)
(* the success toast and navigate("/orders"), which unmounts the Cart page *)
CheckoutClearCart(s, fail) ==
  LET uid == UserOf(s)
      co == checkout[s]
  IN  /\ co.pc = "clear"
      /\ cart_items' = IF fail THEN cart_items
                       ELSE {r \in cart_items :
                               ~(r.cart_id = co.cartId /\ CartItemsPolicy(uid, r))}
      /\ checkout' = [checkout EXCEPT ![s] = IdleCheckout]
      /\ cartPage' = [cartPage EXCEPT ![s] = EmptyCartPage]
      /\ outcome' = "Pesanan berhasil dibuat!"
      /\ UNCHANGED <<products, carts, orders, order_items, user_roles, now, indexPage, ordersPage, adding, adminPage>>

(* ------------------------------- Admin --------------------------------- *)
(* updateOrderStatus(orderId, status) from the Admin page, which renders   *)
(* only for an admin; the update runs under the orders update policy and   *)
(* fires the update_orders_updated_at trigger.                             *)
OrdersStatusUpdate_CompletedIsFinal(uid, orderId, status, O) ==
  {IF o.id = orderId /\ OrdersUpdatePolicy(uid) /\ o.status # "completed"
   THEN update_updated_at_column([o EXCEPT !.status = status]) ELSE o : o \in O}

OrdersStatusUpdate(uid, orderId, status, O) ==
  {IF o.id = orderId /\ OrdersUpdatePolicy(uid)
   THEN update_updated_at_column([o EXCEPT !.status = status]) ELSE o : o \in O}

updateOrderStatus(s, orderId, status, fail) ==
  /\ has_role(UserOf(s), "admin")
  /\ \E o \in orders : o.id = orderId /\ OrdersSelectPolicy(UserOf(s), o)
  /\ IF fail
     THEN /\ outcome' = "Gagal update status"
          /\ UNCHANGED orders
     ELSE /\ orders' = OrdersStatusUpdate(UserOf(s), orderId, status, orders)
          /\ outcome' = "Status berhasil diupdate"
  /\ UNCHANGED <<products, carts, cart_items, order_items, user_roles, now, cartPage,
                 checkout, indexPage, ordersPage, adding, adminPage>>

(* The product handlers of the Admin page.  The page renders, and its     *)
(* handlers exist, only for an administrator.  The form has inputs for     *)
(* name, category, price, stock, description and dosage and none for the   *)
(* slug; handleProductSubmit is given the editingProduct and productForm   *)
(* of the render it was created in.                                        *)
ProductForms ==
  [name : {<<"a", Space, "B">>}, slug : {<<>>}, description : {<<>>},
   price : {<<"9", "0", "0", "0">>}, stock : {<<"0">>, toString(MaxStock)},
   category_id : {""}, dosage : {<<>>}]
ProductData(form) ==
  [name |-> form.name,
   slug |-> IF form.slug # <<>> THEN form.slug ELSE Slug(form.name),
   description |-> form.description,
   price |-> parseFloat(form.price),
   stock |-> parseInt(form.stock),
   category_id |-> IF form.category_id # "" THEN form.category_id ELSE NoCategory,
   dosage |-> form.dosage]
(* NaN is sent as null; price and stock are NOT NULL *)
ProductDataNotNull(form) == ~IsNaN(form.price) /\ ~IsNaN(form.stock)

ProductsSlugUnique(P) ==
  \A a, b \in DOMAIN P : P[a].slug = P[b].slug => a = b

ProductsUpdate_NameStockPrice(uid, id, data, P) ==
  IF id \in DOMAIN P /\ ProductsWritePolicy(uid)
  THEN [P EXCEPT ![id].name = data.name, ![id].price = data.price,
                 ![id].stock = data.stock]
  ELSE P

(* update products set <productData> where id = ..., under the caller's    *)
(* products policy                                                         *)
ProductsUpdate(uid, id, data, P) ==
  IF id \in DOMAIN P /\ ProductsWritePolicy(uid)
  THEN [P EXCEPT ![id] = [name |-> data.name, slug |-> data.slug,
                          description |-> data.description,
                          price |-> data.price, stock |-> data.stock,
                          category_id |-> data.category_id,
                          dosage |-> data.dosage,
                          is_popular |-> @.is_popular]]
  ELSE P

(* insert into products: the policy is the row check of the insert *)
ProductsInsertDenied(uid) == ~ProductsWritePolicy(uid)
ProductsInsert(id, data, P) ==
  [p \in DOMAIN P \cup {id} |->
     IF p = id
     THEN [name |-> data.name, slug |-> data.slug,
           description |-> data.description, price |-> data.price,
           stock |-> data.stock, category_id |-> data.category_id,
           dosage |-> data.dosage, is_popular |-> FALSE]
     ELSE P[p]]

(* delete from products where id = ..., under the caller's products policy *)
ProductsDelete(uid, id, P) ==
  IF id \in DOMAIN P /\ ProductsWritePolicy(uid)
  THEN [p \in DOMAIN P \ {id} |-> P[p]]
  ELSE P

order_items_product_id_fkey_Cascade(I, P) == {r \in I : r.product_id \in DOMAIN P \cup {NoProduct}}

(* the foreign keys on products: cart_items ON DELETE CASCADE, order_items *)
(* ON DELETE SET NULL; I are the rows, P the products that remain          *)
cart_items_product_id_fkey(I, P) == {r \in I : r.product_id \in DOMAIN P}
order_items_product_id_fkey(I, P) ==
  {IF r.product_id \in DOMAIN P \cup {NoProduct} THEN r
   ELSE [r EXCEPT !.product_id = NoProduct] : r \in I}

(* a product id the store has not issued yet *)
HeldProductIds ==
  DOMAIN products
    \cup {r.product_id : r \in order_items}
    \cup UNION {{cartPage[s].cartItems[i].products.id : i \in 1..Len(cartPage[s].cartItems)}
                  \cup {checkout[s].cartItems[i].products.id : i \in 1..Len(checkout[s].cartItems)}
                  : s \in Sessions}
    \cup {adding[t].product : t \in Tabs}

(* fetchProducts of the Admin page: the rows, of which the page uses id,   *)
(* name, price and stock                                                   *)
AdminProductList(P) ==
  [p \in DOMAIN P |-> [name |-> P[p].name, price |-> P[p].price, stock |-> P[p].stock]]

(* the Admin component mounts with an empty form and runs fetchData *)
OpenAdmin(s) ==
  /\ has_role(UserOf(s), "admin")
  /\ adminPage' = [EmptyAdminPage EXCEPT !.products = AdminProductList(products)]
  /\ outcome' = "none"
  /\ UNCHANGED <<dbVars, now, cartPage, checkout, indexPage, ordersPage, adding>>

(* handleEditProduct(product) for a row of the page's list *)
handleEditProduct(s, id) ==
  /\ has_role(UserOf(s), "admin")
  /\ id \in DOMAIN adminPage.products
  /\ adminPage' = [adminPage EXCEPT
        !.editingProduct = id,
        !.productForm = [name |-> adminPage.products[id].name,
                         slug |-> <<>>,
                         description |-> <<>>,
                         price |-> toString(adminPage.products[id].price),
                         stock |-> toString(adminPage.products[id].stock),
                         category_id |-> "",
                         dosage |-> <<>>]]
  /\ outcome' = "none"
  /\ UNCHANGED <<dbVars, now, cartPage, checkout, indexPage, ordersPage, adding>>

(* the onChange of a form input: setProductForm({...productForm, field}) *)
setProductForm(field, value) ==
  /\ field \in DOMAIN EmptyForm \ {"slug"}
  /\ adminPage.productForm[field] # value
  /\ adminPage' = [adminPage EXCEPT !.productForm = [@ EXCEPT ![field] = value]]
  /\ outcome' = "none"
  /\ UNCHANGED <<dbVars, now, cartPage, checkout, indexPage, ordersPage, adding>>

(* on success the form is emptied, the edit ends and the list is fetched   *)
(* again; on an error the handler returns before that                      *)
handleProductSubmit(s, editingProduct, form, fail) ==
  LET uid == UserOf(s)
      data == ProductData(form)
      updated == ProductsUpdate(uid, editingProduct, data, products)
      fresh == NewProductIds \ HeldProductIds
      id == CHOOSE p \in fresh : TRUE
      inserted == ProductsInsert(id, data, products)
  IN  /\ has_role(uid, "admin")
      /\ IF editingProduct # NoProduct
         THEN IF fail \/ ~ProductDataNotNull(form) \/ ~ProductsSlugUnique(updated)
              THEN /\ outcome' = "Gagal update produk"
                   /\ UNCHANGED <<products, adminPage>>
              ELSE /\ products' = updated
                   /\ outcome' = "Produk berhasil diupdate"
                   /\ adminPage' = [products |-> AdminProductList(updated),
                                    editingProduct |-> NoProduct,
                                    productForm |-> EmptyForm]
         ELSE /\ fresh # {}
              /\ IF \/ fail \/ ~ProductDataNotNull(form) \/ ProductsInsertDenied(uid)
                    \/ ~ProductsSlugUnique(inserted)
                 THEN /\ outcome' = "Gagal menambah produk"
                      /\ UNCHANGED <<products, adminPage>>
                 ELSE /\ products' = inserted
                      /\ outcome' = "Produk berhasil ditambahkan"
                      /\ adminPage' = [adminPage EXCEPT
                            !.products = AdminProductList(inserted),
                            !.productForm = EmptyForm]
      /\ UNCHANGED <<carts, cart_items, orders, order_items, user_roles, now, cartPage,
                     checkout, indexPage, ordersPage, adding>>

handleDeleteProduct(s, id, fail) ==
  LET uid == UserOf(s)
      remaining == ProductsDelete(uid, id, products)
  IN  /\ has_role(uid, "admin")
      /\ id \in DOMAIN products
      /\ IF fail
         THEN /\ outcome' = "Gagal menghapus produk"
              /\ UNCHANGED <<products, cart_items, order_items, adminPage>>
         ELSE /\ products' = remaining
              /\ cart_items' = cart_items_product_id_fkey(cart_items, remaining)
              /\ order_items' = order_items_product_id_fkey(order_items, remaining)
              /\ outcome' = "Produk berhasil dihapus"
              /\ adminPage' = [adminPage EXCEPT !.products = AdminProductList(remaining)]
      /\ UNCHANGED <<carts, orders, user_roles, now, cartPage, checkout, indexPage,
                     ordersPage, adding>>

(* ------------------------------ Orders page ---------------------------- *)
(* the orderings a query without ORDER BY may return its rows in *)
Orderings(rows) ==
  {q \in [1..Cardinality(rows) -> rows] : \A i, j \in DOMAIN q : q[i] = q[j] => i = j}

(* order by created_at descending *)
RECURSIVE SortByCreatedDesc(_)
SortByCreatedDesc(rows) ==
  IF rows = {} THEN <<>>
  ELSE LET m == CHOOSE r \in rows : \A q \in rows : r.created_at >= q.created_at
       IN  <<m>> \o SortByCreatedDesc(rows \ {m})

(* fetchOrders: the caller's orders, each with its order items nested,    *)
(* read under the select policies of both tables                           *)
fetchOrders(s, fail) ==
  LET uid == UserOf(s)
      mine == SortByCreatedDesc({o \in orders : o.user_id = uid /\ OrdersSelectPolicy(uid, o)})
      itemsOf(o) == {r \in order_items : r.order_id = o.id /\ OrderItemsSelectPolicy(uid, r)}
  IN  /\ IF fail
         THEN /\ outcome' = "Gagal memuat pesanan"
              /\ UNCHANGED ordersPage
         ELSE /\ outcome' = "none"
              /\ \E nested \in [1..Len(mine) -> UNION {Orderings(itemsOf(mine[i])) : i \in 1..Len(mine)}] :
                    /\ \A i \in 1..Len(mine) : nested[i] \in Orderings(itemsOf(mine[i]))
                    /\ ordersPage' = [ordersPage EXCEPT ![s].orders =
                          [i \in 1..Len(mine) |->
                             [id |-> mine[i].id, user_id |-> mine[i].user_id,
                              order_number |-> mine[i].order_number,
                              total_amount |-> mine[i].total_amount,
                              status |-> mine[i].status,
                              shipping_address |-> mine[i].shipping_address,
                              created_at |-> mine[i].created_at,
                              order_items |-> nested[i]]]]
      /\ UNCHANGED <<dbVars, now, cartPage, checkout, indexPage, adding, adminPage>>

(* Intl.NumberFormat("id-ID", currency IDR): Rp, a no-break space, and the *)
(* digits in groups of three separated by dots                             *)
RECURSIVE GroupThousands(_)
GroupThousands(d) ==
  IF Len(d) <= 3 THEN d
  ELSE GroupThousands(SubSeq(d, 1, Len(d) - 3)) \o <<".">> \o SubSeq(d, Len(d) - 2, Len(d))
formatPrice(price) ==
  IF price < 0 THEN <<"-", "R", "p", "nbsp">> \o GroupThousands(Digits(0 - price))
  ELSE <<"R", "p", "nbsp">> \o GroupThousands(Digits(price))

getStatusText(status) ==
  IF status = "pending" THEN "Menunggu Pembayaran"
  ELSE IF status = "paid" THEN "Dibayar"
  ELSE IF status = "processing" THEN "Diproses"
  ELSE IF status = "shipped" THEN "Dikirim"
  ELSE IF status = "completed" THEN "Selesai"
  ELSE IF status = "cancelled" THEN "Dibatalkan"
  ELSE status

(* new Date(created_at).toLocaleDateString("id-ID"): day/month/year; the   *)
(* clock starts on the day of the migration and the time of day is dropped *)
TicksPerDay == 2
toLocaleDateString(t) ==
  Digits(6 + (t \div TicksPerDay)) \o <<"/", "1", "1", "/", "2", "0", "2", "5">>

(* String.prototype.trim on a text given as its lines *)
BlankLine(line) == \A i \in 1..Len(line) : line[i] = Space
RECURSIVE TrimLines(_)
TrimLines(lines) ==
  IF lines = <<>> THEN <<>>
  ELSE IF BlankLine(Head(lines)) THEN TrimLines(Tail(lines))
  ELSE IF BlankLine(lines[Len(lines)]) THEN TrimLines(SubSeq(lines, 1, Len(lines) - 1))
  ELSE lines

RECURSIVE ItemLines(_, _)
ItemLines(items, index) ==
  IF items = <<>> THEN <<>>
  ELSE <<<<>>,
         Digits(index) \o <<".", Space>> \o Head(items).product_name,
         <<Space, Space, Space>> \o Digits(Head(items).quantity) \o <<Space, "x", Space>>
           \o formatPrice(Head(items).product_price) \o <<Space, "=", Space>>
           \o formatPrice(Head(items).subtotal)>>
       \o ItemLines(Tail(items), index + 1)

(* the template of downloadInvoice, a text given as its lines *)
InvoiceText(order_number, created_at, items, total_amount, shipping_address, status) ==
  TrimLines(
    <<<<>>,
      <<"=================================">>,
      <<"      WARUNG MADURA">>,
      <<"   Apotek Online Terpercaya">>,
      <<"=================================">>,
      <<"Invoice: ">> \o order_number,
      <<"Tanggal: ">> \o toLocaleDateString(created_at),
      <<"---------------------------------">>,
      <<>>,
      <<"ITEM PESANAN:">>>>
    \o ItemLines(items, 1)
    \o <<<<>>, <<>>,
          <<"---------------------------------">>,
          <<"TOTAL: ">> \o formatPrice(total_amount),
          <<"---------------------------------">>,
          <<>>,
          <<"Alamat Pengiriman:">>,
          shipping_address,
          <<>>,
          <<"Status: ", getStatusText(status)>>,
          <<>>,
          <<"Terima kasih telah berbelanja">>,
          <<"di Warung Madura!">>,
          <<"=================================">>,
          <<Space, Space, Space, Space>>>>)

invoiceContent_StoredStatus(order) ==
  InvoiceText(order.order_number, order.created_at, order.order_items,
              order.total_amount, order.shipping_address,
              (CHOOSE o \in orders : o.id = order.id).status)

invoiceContent(order) ==
  InvoiceText(order.order_number, order.created_at, order.order_items,
              order.total_amount, order.shipping_address, order.status)

(* downloadInvoice(order) for the k-th order of the page: the text handed  *)
(* to the browser as Invoice-<order number>.txt                            *)
downloadInvoice(s, k) ==
  /\ k \in 1..Len(ordersPage[s].orders)
  /\ ordersPage' = [ordersPage EXCEPT
        ![s].invoice = invoiceContent(ordersPage[s].orders[k]),
        ![s].invoiceOf = ordersPage[s].orders[k]]
  /\ outcome' = "none"
  /\ UNCHANGED <<dbVars, now, cartPage, checkout, indexPage, adding, adminPage>>

(* ------------------------------- clock --------------------------------- *)
Tick ==
  /\ now < MaxTime
  /\ now' = now + 1
  /\ UNCHANGED <<dbVars, cartPage, checkout, outcome, indexPage, ordersPage, adding, adminPage>>

(* ------------------------------ Index page ----------------------------- *)
RECURSIVE LikeMatch(_, _)
LikeMatch(text, pattern) ==
  IF pattern = <<>> THEN text = <<>>
  ELSE IF Head(pattern) = "%"
  THEN LikeMatch(text, Tail(pattern)) \/ (text # <<>> /\ LikeMatch(Tail(text), pattern))
  ELSE /\ text # <<>>
       /\ (Head(pattern) = "_" \/ Head(pattern) = Head(text))
       /\ LikeMatch(Tail(text), Tail(pattern))

(* name ILIKE pattern *)
ilike(text, pattern) == LikeMatch(ToLower(text), ToLower(pattern))

CharRank(c) ==
  IF c = "a" THEN 1 ELSE IF c = "A" THEN 2 ELSE IF c = "b" THEN 3 ELSE IF c = "B" THEN 4 ELSE 0
RECURSIVE NameBefore(_, _)
NameBefore(x, y) ==
  IF x = <<>> THEN y # <<>>
  ELSE IF y = <<>> THEN FALSE
  ELSE IF Head(x) = Head(y) THEN NameBefore(Tail(x), Tail(y))
  ELSE CharRank(Head(x)) < CharRank(Head(y))

CatalogBefore_NameOnly(x, y) == NameBefore(x.name, y.name)

(* order by is_popular descending, then by name: x sorts strictly before y *)
CatalogBefore(x, y) ==
  IF x.is_popular # y.is_popular THEN x.is_popular
  ELSE NameBefore(x.name, y.name)
RECURSIVE CatalogSort(_)
CatalogSort(rows) ==
  IF rows = {} THEN <<>>
  ELSE LET m == CHOOSE r \in rows : \A q \in rows : ~CatalogBefore(q, r)
       IN  <<m>> \o CatalogSort(rows \ {m})

(* fetchProducts: the rows the query returns from the products table P *)
fetchProducts(P, searchQuery, selectedCategory) ==
  CatalogSort(
    {[id |-> p, name |-> P[p].name, stock |-> P[p].stock,
      category_id |-> P[p].category_id, is_popular |-> P[p].is_popular]
       : p \in {x \in DOMAIN P :
                  /\ P[x].stock > 0
                  /\ (selectedCategory # NoCategory
                        => P[x].category_id = selectedCategory)
                  /\ (searchQuery # <<>>
                        => ilike(P[x].name, <<"%">> \o searchQuery \o <<"%">>))}})

(* typing in the search box, or picking a category, re-runs fetchProducts; *)
(* on an error the list on the page stays as it was                        *)
setSearchQuery(q, fail) ==
  /\ q # indexPage.searchQuery
  /\ indexPage' = [indexPage EXCEPT
        !.searchQuery = q,
        !.products = IF fail THEN @
                     ELSE fetchProducts(products, q, indexPage.selectedCategory)]
  /\ outcome' = IF fail THEN "Gagal memuat produk" ELSE "none"
  /\ UNCHANGED <<dbVars, now, cartPage, checkout, ordersPage, adding, adminPage>>

setSelectedCategory(c, fail) ==
  /\ c # indexPage.selectedCategory
  /\ indexPage' = [indexPage EXCEPT
        !.selectedCategory = c,
        !.products = IF fail THEN @
                     ELSE fetchProducts(products, indexPage.searchQuery, c)]
  /\ outcome' = IF fail THEN "Gagal memuat produk" ELSE "none"
  /\ UNCHANGED <<dbVars, now, cartPage, checkout, ordersPage, adding, adminPage>>

(* ---------------------------- specifications --------------------------- *)
(* everything a session can do on the ProductDetail and Cart pages; Fails  *)
(* is the set of request outcomes the backend and the network can produce  *)
Shop(s, Fails) ==
  \/ \E p \in ProductIds, q \in 1..MaxQty,
        failAt \in (IF TRUE \in Fails THEN {"none", "carts", "cart_items"} ELSE {"none"}) :
        AddToCart(s, p, q, failAt)
  \/ OpenCart(s)
  \/ \E i \in 1..Cardinality(ProductIds), n \in 0..MaxQty, fail \in Fails :
        updateQuantity(s, i, n, fail)
  \/ \E i \in 1..Cardinality(ProductIds), fail \in Fails : removeItem(s, i, fail)
  \/ \E a \in Addresses, fail \in Fails : CheckoutBegin(s, a, fail)
  \/ \E fail \in Fails : CheckoutInsertItems(s, fail)
  \/ \E fail \in Fails : CheckoutUpdateStock(s, fail)
  \/ \E fail \in Fails : CheckoutClearCart(s, fail)

(* one customer; every request can fail *)
Next ==
  \/ Shop("s1", BOOLEAN)
  \/ Tick

Spec == Init /\ [][Next]_vars

(* one customer; no request fails *)
NextReliable ==
  \/ Shop("s1", {FALSE})
  \/ Tick

SpecReliable == Init /\ [][NextReliable]_vars

(* a customer who buys, and the order table of the Admin page *)
Buy(s) ==
  \/ \E p \in ProductIds, q \in 1..MaxQty : AddToCart(s, p, q, "none")
  \/ \E a \in Addresses : CheckoutBegin(s, a, FALSE)
  \/ \E fail \in BOOLEAN : CheckoutInsertItems(s, fail)
  \/ CheckoutUpdateStock(s, FALSE)
  \/ CheckoutClearCart(s, FALSE)

NextAdmin ==
  \/ Buy("s1")
  \/ \E o \in 1..MaxOrders, st \in Statuses, fail \in BOOLEAN :
        updateOrderStatus("s2", o, st, fail)
  \/ Tick

SpecAdmin == Init /\ [][NextAdmin]_vars

(* a customer who buys, and the product and order tables of the Admin page *)
BuyOne(s) ==
  \/ \E p \in {"p1"} : AddToCart(s, p, 1, "none")
  \/ \E a \in {<<Space, "J">>} : CheckoutBegin(s, a, FALSE)
  \/ \E fail \in BOOLEAN : CheckoutInsertItems(s, fail)
  \/ CheckoutUpdateStock(s, FALSE)
  \/ CheckoutClearCart(s, FALSE)

NextBackoffice ==
  \/ BuyOne("s1")
  \/ \E id \in {NoProduct, "p1"}, form \in ProductForms, fail \in BOOLEAN :
        handleProductSubmit("s2", id, form, fail)
  \/ \E id \in {"p1", "p3"}, fail \in BOOLEAN : handleDeleteProduct("s2", id, fail)
  \/ \E o \in 1..MaxOrders, st \in {"paid", "cancelled"} :
        updateOrderStatus("s2", o, st, FALSE)

SpecBackoffice == Init /\ [][NextBackoffice]_vars

(* a customer who buys and reads the order history, while the order's      *)
(* status is set on the Admin page                                         *)
NextOrders ==
  \/ BuyOne("s1")
  \/ \E n \in 1..MaxQty : updateQuantity("s1", 1, n, FALSE)
  \/ removeItem("s1", 1, FALSE)
  \/ \E st \in {"paid", "shipped"} : updateOrderStatus("s2", 1, st, FALSE)
  \/ \E fail \in BOOLEAN : fetchOrders("s1", fail)
  \/ \E k \in 1..MaxOrders : downloadInvoice("s1", k)
  \/ Tick

SpecOrders == Init /\ [][NextOrders]_vars

(* a visitor who is not signed in, and a customer who fills, edits and     *)
(* checks out the cart; the requests of addToCart can fail                *)
NextVisitor ==
  \/ \E p \in ProductIds \cup {NoProduct}, q \in 1..MaxQty : addToCartSignedOut(p, q)
  \/ \E p \in ProductIds, q \in 1..MaxQty, failAt \in {"none", "carts", "cart_items"} :
        AddToCart("s1", p, q, failAt)
  \/ \E i \in 1..Cardinality(ProductIds) : removeItem("s1", i, FALSE)
  \/ \E a \in {<<Space, "J">>} : CheckoutBegin("s1", a, FALSE)
  \/ CheckoutInsertItems("s1", FALSE)
  \/ CheckoutUpdateStock("s1", FALSE)
  \/ CheckoutClearCart("s1", FALSE)

SpecVisitor == Init /\ [][NextVisitor]_vars

(* an administrator on the Admin page: opening it, picking a product to    *)
(* edit, typing into the form, submitting it                               *)
TypedFields ==
  {<<"description", <<"d", "3">>>>, <<"category_id", "c2">>, <<"stock", <<>>>>}

NextEdit ==
  \/ OpenAdmin("s2")
  \/ \E id \in ProductIds : handleEditProduct("s2", id)
  \/ \E fv \in TypedFields : setProductForm(fv[1], fv[2])
  \/ \E fail \in BOOLEAN :
        handleProductSubmit("s2", adminPage.editingProduct, adminPage.productForm, fail)

SpecEdit == Init /\ [][NextEdit]_vars

(* one customer with the product page open in two tabs, and the Cart page *)
NextTabs ==
  \/ \E t \in Tabs :
        \/ \E p \in ProductIds, fail \in BOOLEAN : addToCartSelectCart(t, p, 1, fail)
        \/ \E fail \in BOOLEAN : addToCartInsertCart(t, fail)
        \/ \E fail \in BOOLEAN : addToCartSelectItem(t, fail)
        \/ \E fail \in BOOLEAN : addToCartWrite(t, fail)
  \/ \E i \in 1..Cardinality(ProductIds) : removeItem("s1", i, FALSE)

SpecTabs == Init /\ [][NextTabs]_vars

(* two customers, ani and budi, who want the last unit of the same         *)
(* product: each adds it to an empty cart                                  *)
Visit(s) ==
  \/ AddToCart(s, "p2", 1, "none") /\ \A r \in cart_items : ~CartItemsPolicy(UserOf(s), r)
  \/ removeItem(s, 1, FALSE)
  \/ \E a \in {<<Space, "J">>} : CheckoutBegin(s, a, FALSE)
  \/ CheckoutInsertItems(s, FALSE)
  \/ CheckoutUpdateStock(s, FALSE)
  \/ CheckoutClearCart(s, FALSE)

(* the clock is looked at only through the order numbers it has given out *)
NextTwo ==
  \/ \E s \in Sessions : Visit(s)
  \/ fetchOrders("s1", FALSE)
  \/ Tick /\ \E o \in orders : o.order_number = OrderNumber(now)

SpecTwo == Init /\ [][NextTwo]_vars

(* the catalogue page over a products table of any content *)
CatalogNames == {<<"a">>, <<"A", "b">>, <<"b", "a">>}
SearchChars == {"a", "B", "%", "_"}
MaxQueryLen == 2
SearchTexts == UNION {[1..n -> SearchChars] : n \in 0..MaxQueryLen}

InitCatalog ==
  /\ \E f \in [ProductIds ->
              [name : CatalogNames, stock : {0, MaxStock},
               category_id : {"c1", NoCategory}, is_popular : BOOLEAN]] :
       products = [p \in ProductIds |->
                     [name |-> f[p].name, slug |-> <<p>>, description |-> <<>>,
                      price |-> 8000, stock |-> f[p].stock,
                      category_id |-> f[p].category_id, dosage |-> <<>>,
                      is_popular |-> f[p].is_popular]]
  /\ carts = {}
  /\ cart_items = {}
  /\ orders = {}
  /\ order_items = {}
  /\ user_roles = RoleRows({"budi"})
  /\ now = 0
  /\ cartPage = [s \in Sessions |-> EmptyCartPage]
  /\ checkout = [s \in Sessions |-> IdleCheckout]
  /\ outcome = "none"
  /\ indexPage = [searchQuery |-> <<>>, selectedCategory |-> NoCategory,
                  products |-> fetchProducts(products, <<>>, NoCategory)]
  /\ ordersPage = [s \in Sessions |-> EmptyOrdersPage]
  /\ adding = [t \in Tabs |-> IdleAdd]
  /\ adminPage = EmptyAdminPage

NextCatalog ==
  \/ \E q \in SearchTexts, fail \in BOOLEAN : setSearchQuery(q, fail)
  \/ \E c \in CategoryIds \cup {NoCategory}, fail \in BOOLEAN : setSelectedCategory(c, fail)

SpecCatalog == InitCatalog /\ [][NextCatalog]_vars

(* ============================== claims ================================= *)
ItemsOfOrder(I, orderId) == {r \in I : r.order_id = orderId}
RECURSIVE SumSubtotals(_)
SumSubtotals(rows) ==
  IF rows = {} THEN 0
  ELSE LET r == CHOOSE x \in rows : TRUE IN r.subtotal + SumSubtotals(rows \ {r})
Completes(s) == \E fail \in BOOLEAN : CheckoutClearCart(s, fail)
Success == "Pesanan berhasil dibuat!"

(* C1: when a checkout completes, the total_amount of the order it created *)
(* equals the sum of the subtotals of the order items inserted for that    *)
(* order, and each subtotal is the line's price times its quantity.        *)
C1_TotalIsSumOfSubtotals ==
  [][\A s \in Sessions : Completes(s) =>
        LET co == checkout[s]
            its == ItemsOfOrder(order_items', co.order_id)
        IN  /\ \E o \in orders' :
                 o.id = co.order_id /\ o.total_amount = SumSubtotals(its)
            /\ Cardinality(its) = Len(co.cartItems)
            /\ \A i \in 1..Len(co.cartItems) : \E r \in its :
                 /\ r.product_id = co.cartItems[i].products.id
                 /\ r.quantity = co.cartItems[i].quantity
                 /\ r.subtotal = co.cartItems[i].products.price * co.cartItems[i].quantity]_vars

C1_Witness ==
  /\ outcome = Success
  /\ \E o \in orders :
       /\ Cardinality(ItemsOfOrder(order_items, o.id)) = 2
       /\ o.total_amount = 28000
       /\ \E r \in ItemsOfOrder(order_items, o.id) : r.quantity = 2 /\ r.subtotal = 16000

(* C2 (as claimed): when a checkout completes on a cart whose every line   *)
(* had quantity <= the stored stock at the invocation, the stored stock of *)
(* each purchased product is its stock at the invocation minus the         *)
(* purchased quantity.                                                     *)
C2_StockDecreasedByQuantity ==
  [][\A s \in Sessions :
        LET co == checkout[s]
            lines == 1..Len(co.cartItems)
        IN  (/\ Completes(s)
             /\ \A i \in lines :
                  co.cartItems[i].quantity <= co.stock0[co.cartItems[i].products.id])
            => \A i \in lines :
                 products'[co.cartItems[i].products.id].stock
                   = co.stock0[co.cartItems[i].products.id] - co.cartItems[i].quantity]_vars

(* C3: a checkout invoked while the Cart page holds no line writes nothing *)
(* (no order, order item, stock or cart write) and starts no request.      *)
C3_EmptyCartNoWrites ==
  [][\A s \in Sessions, a \in Addresses, fail \in BOOLEAN :
        (CheckoutBegin(s, a, fail) /\ Len(cartPage[s].cartItems) = 0)
        => /\ UNCHANGED <<products, carts, cart_items, orders, order_items>>
           /\ checkout'[s].pc = "idle"]_vars

C3_Witness ==
  /\ outcome = "handleCheckout: return"
  /\ cartPage["s1"].cartId # NoCart
  /\ cartPage["s1"].cartItems = <<>>

(* C4: a checkout invoked with an empty or all-whitespace shipping address *)
(* leaves orders, order items, products, carts and cart items unchanged.   *)
C4_BlankAddressNoWrites ==
  [][\A s \in Sessions, a \in Addresses, fail \in BOOLEAN :
        (CheckoutBegin(s, a, fail) /\ \A i \in 1..Len(a) : a[i] = Space)
        => /\ UNCHANGED <<products, carts, cart_items, orders, order_items>>
           /\ checkout'[s].pc = "idle"]_vars

C4_Witness ==
  /\ outcome = "Silakan isi alamat pengiriman"
  /\ cartPage["s1"].cartItems # <<>>
  /\ orders = {}

(* C5 (as claimed): a failed step ends the checkout and keeps what was     *)
(* written: a failed order insert writes nothing; a failed order-items     *)
(* insert keeps the order and writes nothing else; a failed stock update   *)
(* leaves the following lines and the cart untouched.                      *)
C5_FailureAbortsRemainingSteps ==
  [][\A s \in Sessions :
        /\ (\E a \in Addresses : CheckoutBegin(s, a, TRUE))
             => (UNCHANGED dbVars /\ checkout'[s].pc = "idle")
        /\ CheckoutInsertItems(s, TRUE)
             => (UNCHANGED dbVars /\ checkout'[s].pc = "idle"
                 /\ \E o \in orders' : o.id = checkout[s].order_id)
        /\ CheckoutUpdateStock(s, TRUE)
             => (UNCHANGED dbVars /\ checkout'[s].pc = "idle")]_vars

(* C6: within one checkout the requests are issued in the order: order     *)
(* insert, order items insert, one stock update per line in line order,    *)
(* cart delete; order items always belong to an existing order and the     *)
(* cart delete is issued only after every stock update.                    *)
ExpectedLog(co) ==
  <<<<"orders.insert", co.order_id>>, <<"order_items.insert", co.order_id>>>>
    \o [i \in 1..Len(co.cartItems) |-> <<"products.update", co.cartItems[i].products.id>>]
IssuedAt(co) ==
  IF co.pc = "order_items" THEN 1
  ELSE IF co.pc = "stock" THEN 1 + co.idx
  ELSE 2 + Len(co.cartItems)
C6_LogInOrder ==
  \A s \in Sessions :
    LET co == checkout[s]
    IN  /\ co.pc # "idle" =>
             /\ Len(co.log) = IssuedAt(co)
             /\ co.log = SubSeq(ExpectedLog(co), 1, Len(co.log))
             /\ \E o \in orders : o.id = co.order_id
             /\ (ItemsOfOrder(order_items, co.order_id) # {}) = (co.pc # "order_items")
        /\ \A r \in order_items : \E o \in orders : o.id = r.order_id
C6_StepsInOrder ==
  /\ []C6_LogInOrder
  /\ [][\A s \in Sessions : Completes(s) => checkout[s].log = ExpectedLog(checkout[s])]_vars

C6_Witness ==
  /\ checkout["s1"].pc = "clear"
  /\ Len(checkout["s1"].cartItems) = 2
  /\ checkout["s1"].log = ExpectedLog(checkout["s1"])
  /\ has_role("ani", "admin")
  /\ \A p \in ProductIds : products[p].stock < checkout["s1"].stock0[p]

(* C7 (as claimed): after a checkout completes no cart item references the *)
(* cart and the cart row still exists; for a cart of one line, price 8000  *)
(* and quantity 2, the order has total 16000 and one order item of         *)
(* subtotal 16000, and the stock is lowered by 2.                          *)
C7_CartEmptiedAndScenario ==
  [][\A s \in Sessions :
        LET co == checkout[s]
            its == ItemsOfOrder(order_items', co.order_id)
        IN  Completes(s) =>
              /\ \A r \in cart_items' : r.cart_id # co.cartId
              /\ \E c \in carts' : c.id = co.cartId /\ c.user_id = UserOf(s)
              /\ (/\ Len(co.cartItems) = 1
                  /\ co.cartItems[1].products.price = 8000
                  /\ co.cartItems[1].quantity = 2)
                 => /\ \E o \in orders' : o.id = co.order_id /\ o.total_amount = 16000
                    /\ Cardinality(its) = 1
                    /\ \A r \in its : r.subtotal = 16000
                    /\ products'[co.cartItems[1].products.id].stock
                         = co.stock0[co.cartItems[1].products.id] - 2]_vars

(* C8: updateQuantity called with a quantity below 1 writes nothing: the   *)
(* cart items (that line's quantity included), products, orders and order *)
(* items are unchanged, and so is the page.                                *)
C8_QuantityBelowOneNoWrite ==
  [][\A s \in Sessions, i \in 1..Cardinality(ProductIds), n \in 0..MaxQty,
        fail \in BOOLEAN :
        (updateQuantity(s, i, n, fail) /\ n < 1)
        => /\ UNCHANGED <<products, carts, cart_items, orders, order_items>>
           /\ cartPage' = cartPage]_vars

C8_Witness ==
  /\ outcome = "updateQuantity: return"
  /\ cartPage["s1"].cartItems # <<>>
  /\ \E r \in cart_items : r.quantity = 1

(* C9 (as claimed): when an administrator sets an order's status, the      *)
(* order has the selected status afterwards and no other field of it, and  *)
(* no other order, changes.                                                *)
C9_OnlyStatusChanges ==
  [][\A s \in Sessions, id \in 1..MaxOrders, st \in Statuses :
        updateOrderStatus(s, id, st, FALSE)
        => orders' = {IF o.id = id THEN [o EXCEPT !.status = st] ELSE o : o \in orders}]_vars

(* C9 (amended): when an administrator sets an order's status, the order   *)
(* has the selected status afterwards, its updated_at is the time of the   *)
(* update, and no other field of it, no other order and no other table     *)
(* changes.                                                                *)
C9_StatusAndUpdatedAtChange ==
  [][\A s \in Sessions, id \in 1..MaxOrders, st \in Statuses :
        updateOrderStatus(s, id, st, FALSE)
        => /\ orders' = {IF o.id = id
                         THEN [o EXCEPT !.status = st, !.updated_at = now]
                         ELSE o : o \in orders}
           /\ UNCHANGED <<products, carts, cart_items, order_items, user_roles>>]_vars

C9_Witness ==
  /\ outcome = "Status berhasil diupdate"
  /\ \E o \in orders :
       /\ o.status = "shipped"
       /\ o.updated_at > o.created_at
       /\ ItemsOfOrder(order_items, o.id) # {}

(* C10 (as claimed): every product the catalog fetch returns has stock > 0, *)
(* a name that contains the search text case-insensitively when the text   *)
(* is not empty, and the selected category when one is selected; the fetch *)
(* changes no stored data.                                                 *)
ContainsIgnoringCase(name, q) ==
  \E i \in 0..(Len(name) - Len(q)) :
    SubSeq(ToLower(name), i + 1, i + Len(q)) = ToLower(q)
Fetched ==
  \/ \E q \in SearchTexts : setSearchQuery(q, FALSE)
  \/ \E c \in CategoryIds \cup {NoCategory} : setSelectedCategory(c, FALSE)
C10_CatalogFilter ==
  [][Fetched =>
       /\ \A i \in 1..Len(indexPage'.products) :
            LET row == indexPage'.products[i]
            IN  /\ row.stock > 0
                /\ indexPage'.searchQuery # <<>>
                     => ContainsIgnoringCase(row.name, indexPage'.searchQuery)
                /\ indexPage'.selectedCategory # NoCategory
                     => row.category_id = indexPage'.selectedCategory
       /\ UNCHANGED dbVars]_vars

(* C11: only an identity with the admin role can insert, update or delete  *)
(* a product row: every product write a non-admin identity can send (the   *)
(* stock update of its checkout included) leaves the products table as it  *)
(* is, and every change of the table is an administrator's write.          *)
NonAdmins == {u \in Users : ~has_role(u, "admin")}
ProductWriteBy(s) ==
  \/ \E fail \in BOOLEAN : CheckoutUpdateStock(s, fail)
  \/ \E id \in ProductIds \cup NewProductIds \cup {NoProduct}, form \in ProductForms,
        fail \in BOOLEAN : handleProductSubmit(s, id, form, fail)
  \/ \E id \in ProductIds \cup NewProductIds, fail \in BOOLEAN :
        handleDeleteProduct(s, id, fail)
C11_NonAdminRequests ==
  \A u \in NonAdmins, id \in ProductIds \cup NewProductIds :
    /\ ProductsInsertDenied(u)
    /\ ProductsDelete(u, id, products) = products
    /\ \A form \in ProductForms :
         ProductsUpdate(u, id, ProductData(form), products) = products
    /\ \A value \in (0 - MaxQty)..MaxStock :
         ProductsStockUpdate(u, id, value, products) = products
C11_OnlyAdminWritesProducts ==
  /\ []C11_NonAdminRequests
  /\ [][\A s \in Sessions :
          (UserOf(s) \in NonAdmins /\ ProductWriteBy(s)) => UNCHANGED products]_vars
  /\ [][products' # products
          => \E s \in Sessions : has_role(UserOf(s), "admin") /\ ProductWriteBy(s)]_vars

C11_Witness ==
  /\ checkout["s1"].pc = "clear"
  /\ "ani" \in NonAdmins
  /\ checkout["s1"].cartItems[1].quantity = 1
  /\ "p1" \in DOMAIN products
  /\ products["p1"].stock = checkout["s1"].stock0["p1"]

(* C12: the policies admit an identity to its own cart and cart items      *)
(* only, let it create orders and order items only under its own identity, *)
(* and show a non-admin its own orders only; the Cart and Orders pages     *)
(* hold the caller's rows only; and no cart, add-to-cart, checkout or      *)
(* order-history operation of an identity changes a cart, cart item, order *)
(* or order item owned by another identity.                                *)
CartOwnedBy(u, cid) == \E c \in carts : c.id = cid /\ c.user_id = u
OrderOwnedBy(u, oid) == \E o \in orders : o.id = oid /\ o.user_id = u
ForeignRows(u) ==
  [carts |-> {c \in carts : c.user_id # u},
   cart_items |-> {r \in cart_items : ~CartOwnedBy(u, r.cart_id)},
   orders |-> {o \in orders : o.user_id # u},
   order_items |-> {r \in order_items : ~OrderOwnedBy(u, r.order_id)}]
CustomerStep(s) ==
  \/ Shop(s, BOOLEAN)
  \/ \E fail \in BOOLEAN : fetchOrders(s, fail)
  \/ \E k \in 1..MaxOrders : downloadInvoice(s, k)
C12_PolicyScope ==
  \A u \in Users :
    /\ \A c \in carts : CartsPolicy(u, c) => c.user_id = u
    /\ \A r \in cart_items : CartItemsPolicy(u, r) => CartOwnedBy(u, r.cart_id)
    /\ \A o \in orders, v \in Users :
         OrdersInsertCheck(u, [o EXCEPT !.user_id = v]) => v = u
    /\ \A r \in order_items : OrderItemsInsertCheck(u, r) => OrderOwnedBy(u, r.order_id)
    /\ u \in NonAdmins =>
         /\ \A o \in orders : OrdersSelectPolicy(u, o) => o.user_id = u
         /\ \A r \in order_items :
              OrderItemsSelectPolicy(u, r) => OrderOwnedBy(u, r.order_id)
C12_PagesHoldOwnRows ==
  \A s \in Sessions :
    /\ cartPage[s].cartId # NoCart => CartOwnedBy(UserOf(s), cartPage[s].cartId)
    /\ \A i \in 1..Len(cartPage[s].cartItems), r \in cart_items :
         r.id = cartPage[s].cartItems[i].id => CartOwnedBy(UserOf(s), r.cart_id)
    /\ \A k \in 1..Len(ordersPage[s].orders) :
         LET o == ordersPage[s].orders[k]
         IN  /\ o.user_id = UserOf(s)
             /\ \A i \in 1..Len(o.order_items) : o.order_items[i].order_id = o.id
C12_Isolation ==
  /\ []C12_PolicyScope
  /\ []C12_PagesHoldOwnRows
  /\ [][\A s \in Sessions :
          CustomerStep(s) => ForeignRows(UserOf(s))' = ForeignRows(UserOf(s))]_vars

C12_Witness ==
  /\ "ani" \in NonAdmins
  /\ \E o \in orders : o.user_id = "budi" /\ ItemsOfOrder(order_items, o.id) # {}
  /\ \E r \in cart_items : CartOwnedBy("budi", r.cart_id)
  /\ Len(ordersPage["s1"].orders) = 1
  /\ Len(ordersPage["s1"].orders[1].order_items) = 1
  /\ cartPage["s1"].cartItems # <<>>

(* C13: the invoice text is a function of the order record alone: building *)
(* it again for the same record gives the same text, whatever has happened *)
(* to the stored tables and the clock in between, and building it reads    *)
(* and writes no stored data.                                              *)
C13_InvoiceIsPureFunction ==
  [][\A s \in Sessions, k \in 1..MaxOrders :
        downloadInvoice(s, k)
        => /\ UNCHANGED <<dbVars, now>>
           /\ ordersPage'[s].orders = ordersPage[s].orders
           /\ ordersPage[s].invoiceOf = ordersPage[s].orders[k]
                => ordersPage'[s].invoice = ordersPage[s].invoice]_vars

C13_Witness ==
  LET page == ordersPage["s1"]
  IN  /\ Len(page.orders) = 1
      /\ page.invoiceOf = page.orders[1]
      /\ page.invoice = invoiceContent(page.orders[1])
      /\ Len(page.invoice) = 26
      /\ page.invoice[12] = <<" ", " ", " ", "1", " ", "x", " ", "R", "p", "nbsp", "8", ".", "0", "0", "0",
                              " ", "=", " ", "R", "p", "nbsp", "8", ".", "0", "0", "0">>
      /\ page.orders[1].status = "pending"
      /\ \E o \in orders : o.id = page.orders[1].id /\ o.status = "shipped"

(* C14 (as claimed): in every reachable state every product's stored stock *)
(* is at least 0.                                                          *)
C14_StockNeverNegative ==
  \A p \in DOMAIN products : products[p].stock >= 0

(* C15 (as claimed): in every reachable state every cart item's quantity   *)
(* is at least 1 and at most the stored stock of the product it            *)
(* references.                                                             *)
C15_QuantityWithinStock ==
  \A r \in cart_items :
    /\ r.quantity >= 1
    /\ r.product_id \in DOMAIN products
    /\ r.quantity <= products[r.product_id].stock

(* C16: two checkouts by different identities whose pages both read stock  *)
(* 1 for the same product and hold one unit of it both run to completion:  *)
(* when one completes while the other has issued its stock update, both    *)
(* orders and their order items exist, the other can still complete, and   *)
(* the stored stock is not lowered by both purchases (it is 0 when a       *)
(* buyer's write was admitted, 1 otherwise, never 1 - 2).                  *)
HoldsLastUnit(co, p) ==
  /\ Len(co.cartItems) = 1
  /\ co.cartItems[1].products.id = p
  /\ co.cartItems[1].products.stock = 1
  /\ co.cartItems[1].quantity = 1
C16_BothCheckoutsComplete ==
  [][\A s, t \in Sessions, p \in ProductIds :
        (/\ s # t
         /\ Completes(s)
         /\ checkout[t].pc = "clear"
         /\ HoldsLastUnit(checkout[s], p)
         /\ HoldsLastUnit(checkout[t], p))
        => /\ \A x \in {s, t} : \E o \in orders' :
                /\ o.id = checkout[x].order_id
                /\ o.user_id = UserOf(x)
                /\ \E r \in ItemsOfOrder(order_items', o.id) :
                     r.product_id = p /\ r.quantity = 1
           /\ checkout'[t].pc = "clear"
           /\ products'[p].stock > 1 - 2
           /\ products'[p].stock =
                IF \E x \in {s, t} : has_role(UserOf(x), "admin") THEN 0 ELSE 1]_vars

C16_Witness ==
  /\ \A s \in Sessions :
       /\ has_role(UserOf(s), "admin")
       /\ checkout[s].pc = "idle"
       /\ \E o \in orders :
            /\ o.user_id = UserOf(s)
            /\ \E r \in ItemsOfOrder(order_items, o.id) :
                 r.product_id = "p2" /\ r.quantity = 1
  /\ outcome = Success
  /\ cart_items = {}
  /\ products["p2"].stock = 0

(* C17: the order items a checkout inserts (when the insert is accepted)   *)
(* carry the product name and price of the lines its page holds, with the  *)
(* line's quantity and their product as subtotal; and no step (a product   *)
(* update or deletion, a checkout, a status change) removes an existing    *)
(* order item or changes its name, price, quantity or subtotal.            *)
Snapshot(r) ==
  [id |-> r.id, order_id |-> r.order_id, product_name |-> r.product_name,
   product_price |-> r.product_price, quantity |-> r.quantity, subtotal |-> r.subtotal]
C17_OrderItemsAreSnapshots ==
  /\ [][\A s \in Sessions :
          (CheckoutInsertItems(s, FALSE) /\ checkout'[s].pc # "idle")
          => LET co == checkout[s]
                 new == order_items' \ order_items
             IN  /\ Cardinality(new) = Len(co.cartItems)
                 /\ \A i \in 1..Len(co.cartItems) : \E r \in new :
                      /\ r.order_id = co.order_id
                      /\ r.product_id = co.cartItems[i].products.id
                      /\ r.product_name = co.cartItems[i].products.name
                      /\ r.product_price = co.cartItems[i].products.price
                      /\ r.quantity = co.cartItems[i].quantity
                      /\ r.subtotal = r.product_price * r.quantity]_vars
  /\ [][\A r \in order_items : \E q \in order_items' : Snapshot(q) = Snapshot(r)]_vars

C17_Witness ==
  \E r \in order_items :
    /\ r.product_id = "p1"
    /\ r.product_name = <<"A", "b">>
    /\ r.product_price = 8000
    /\ "p1" \in DOMAIN products
    /\ products["p1"].name = <<"a", Space, "B">>
    /\ products["p1"].price = 9000
    /\ \E o \in orders : o.id = r.order_id /\ o.status = "paid"

(* C18: no identity has a cart at the start; in every reachable state each *)
(* identity owns at most one cart, also when two addToCart calls of one    *)
(* identity interleave while it has none; and a cart row appears only      *)
(* through the cart insert of an addToCart call of its owner, who had no   *)
(* cart before.                                                            *)
CartsOf(u) == {c \in carts : c.user_id = u}
C18_AtMostOneCart == \A u \in Users : Cardinality(CartsOf(u)) <= 1
C18_OneLazyCartPerIdentity ==
  /\ carts = {}
  /\ []C18_AtMostOneCart
  /\ [][carts' # carts =>
          \E t \in Tabs :
            LET u == UserOf(SessionOf(t))
            IN  /\ addToCartInsertCart(t, FALSE)
                /\ CartsOf(u) = {}
                /\ carts \subseteq carts'
                /\ \A c \in carts' \ carts : c.user_id = u
                /\ Cardinality(carts' \ carts) = 1]_vars

C18_Witness ==
  /\ adding["t1"].pc = "insert_cart"
  /\ adding["t2"].pc = "select_item"
  /\ Cardinality(CartsOf("ani")) = 1

(* C19: in every reachable state a cart holds at most one cart item per    *)
(* product, also when two addToCart calls for the same product and cart    *)
(* interleave; and the write of an addToCart call for a product that is    *)
(* already in the cart leaves exactly one line for it.                     *)
LinesOf(I, cid, p) == {r \in I : r.cart_id = cid /\ r.product_id = p}
C19_AtMostOneLine ==
  \A c \in carts, p \in ProductIds \cup NewProductIds :
    Cardinality(LinesOf(cart_items, c.id, p)) <= 1
C19_OneLinePerProduct ==
  /\ []C19_AtMostOneLine
  /\ [][\A t \in Tabs, fail \in BOOLEAN :
          (/\ addToCartWrite(t, fail)
           /\ LinesOf(cart_items, adding[t].cart, adding[t].product) # {})
          => Cardinality(LinesOf(cart_items', adding[t].cart, adding[t].product)) = 1]_vars

C19_Witness ==
  /\ adding["t1"].pc = "write"
  /\ adding["t1"].existingItem = NoItem
  /\ outcome = "Produk ditambahkan ke keranjang"
  /\ LinesOf(cart_items, adding["t1"].cart, adding["t1"].product) # {}

(* C20: every order is created with status pending; the status of an       *)
(* existing order changes only in an accepted updateOrderStatus of an      *)
(* administrator; an update of the status sent by a non-admin identity     *)
(* matches no row; and no add-to-cart, cart edit, checkout, order-history  *)
(* or invoice step of a non-admin identity changes the status of any       *)
(* order.                                                                  *)
StatusOf(O) == {<<o.id, o.status>> : o \in O}
C20_NonAdminStatusUpdate ==
  \A u \in NonAdmins, o \in orders, st \in Statuses :
    OrdersStatusUpdate(u, o.id, st, orders) = orders
C20_StatusOnlyByAdmin ==
  /\ []C20_NonAdminStatusUpdate
  /\ [][\A q \in orders' :
          IF \A o \in orders : o.id # q.id
          THEN q.status = "pending"
          ELSE \A o \in orders :
                 (o.id = q.id /\ o.status # q.status)
                 => \E s \in Sessions :
                      /\ has_role(UserOf(s), "admin")
                      /\ updateOrderStatus(s, o.id, q.status, FALSE)]_vars
  /\ [][\A s \in Sessions :
          (UserOf(s) \in NonAdmins /\ CustomerStep(s))
          => \A o \in orders : <<o.id, o.status>> \in StatusOf(orders')]_vars

C20_Witness ==
  /\ "ani" \in NonAdmins
  /\ \E o \in orders : o.user_id = "ani" /\ o.status = "shipped"
  /\ Len(ordersPage["s1"].orders) = 1
  /\ ordersPage["s1"].orders[1].status = "shipped"
  /\ ordersPage["s1"].invoiceOf = ordersPage["s1"].orders[1]
  /\ outcome = "Item dihapus"

(* C21: every order's status is always one of the six values of the status *)
(* select; for an administrator the status update is available for every   *)
(* order and every one of the six values, whatever the order's present     *)
(* status; and an update that does not fail sets the selected value and    *)
(* reports success, a backwards change such as completed to pending        *)
(* included.                                                               *)
C21_StatusInSet == \A o \in orders : o.status \in Statuses
C21_UpdateAvailable ==
  \A s \in Sessions, o \in orders, to \in Statuses :
    has_role(UserOf(s), "admin") => ENABLED updateOrderStatus(s, o.id, to, FALSE)
C21_EveryTransitionAccepted ==
  /\ []C21_StatusInSet
  /\ []C21_UpdateAvailable
  /\ [][\A s \in Sessions, id \in 1..MaxOrders, to \in Statuses :
          updateOrderStatus(s, id, to, FALSE)
          => /\ outcome' = "Status berhasil diupdate"
             /\ \E o \in orders' : o.id = id /\ o.status = to]_vars

C21_Witness ==
  /\ outcome = "Status berhasil diupdate"
  /\ \E o \in orders :
       /\ o.status = "pending"
       /\ o.updated_at > o.created_at
       /\ ItemsOfOrder(order_items, o.id) # {}

(* C22: in every reachable state no two orders share an order number; the  *)
(* order a checkout creates carries the number made from the clock at the  *)
(* invocation; and a checkout (cart not empty, address given) invoked      *)
(* while an order with the number of the present clock value exists        *)
(* reports the failure and creates no order and no order item, changes no  *)
(* stock and leaves the cart and its items, stored and on the page, as     *)
(* they are.                                                               *)
C22_NumbersDistinct ==
  \A a, b \in orders : a.order_number = b.order_number => a.id = b.id
NumberTaken == \E o \in orders : o.order_number = OrderNumber(now)
C22_OrderNumbersUnique ==
  /\ []C22_NumbersDistinct
  /\ [][\A s \in Sessions, a \in Addresses :
          (/\ CheckoutBegin(s, a, FALSE)
           /\ ~CheckoutReturnsEarly(cartPage[s])
           /\ ~AddressMissing(a))
          => IF NumberTaken
             THEN /\ UNCHANGED <<products, carts, cart_items, orders, order_items>>
                  /\ cartPage' = cartPage
                  /\ checkout'[s].pc = "idle"
                  /\ outcome' = "Gagal membuat pesanan"
             ELSE \E o \in orders' \ orders :
                    /\ orders' = orders \cup {o}
                    /\ o.order_number = OrderNumber(now)
                    /\ o.user_id = UserOf(s)]_vars

C22_Witness ==
  /\ outcome = "Gagal membuat pesanan"
  /\ \E o \in orders : o.order_number = OrderNumber(now) /\ o.user_id = "ani"
  /\ checkout["s2"].pc = "idle"
  /\ cartPage["s2"].cartItems # <<>>
  /\ \E r \in cart_items : CartOwnedBy("budi", r.cart_id)
  /\ \A o \in orders : o.user_id # "budi"

(* C23: the list a catalog fetch puts on the page (the page changes and no *)
(* error is reported) is the result of the query and is ordered by         *)
(* popularity descending and then by name ascending: no non-popular        *)
(* product stands before a popular one, and of two products of equal       *)
(* popularity the one standing first has the name that is equal or sorts   *)
(* first.                                                                  *)
C23_Ordered(list) ==
  \A i, j \in 1..Len(list) :
    i < j => /\ list[j].is_popular => list[i].is_popular
             /\ list[i].is_popular = list[j].is_popular
                  => (list[i].name = list[j].name
                        \/ NameBefore(list[i].name, list[j].name))
C23_PageOrdered == C23_Ordered(indexPage.products)
C23_CatalogOrder ==
  /\ []C23_PageOrdered
  /\ [][(indexPage' # indexPage /\ outcome' = "none")
          => /\ C23_Ordered(indexPage'.products)
             /\ indexPage'.products =
                  fetchProducts(products, indexPage'.searchQuery,
                                indexPage'.selectedCategory)]_vars

C23_Witness ==
  /\ indexPage.searchQuery = <<"a">>
  /\ Len(indexPage.products) = 2
  /\ indexPage.products[1].is_popular
  /\ ~indexPage.products[2].is_popular
  /\ NameBefore(indexPage.products[2].name, indexPage.products[1].name)

CheckoutFailure == "Gagal membuat pesanan"
C25_WriteResultsIgnored ==
  /\ [][\A s \in Sessions, fail \in BOOLEAN :
          CheckoutUpdateStock(s, fail)
          => /\ outcome' = outcome
             /\ outcome' # CheckoutFailure
             /\ checkout'[s].idx = checkout[s].idx + 1
             /\ checkout'[s].pc =
                  IF checkout[s].idx < Len(checkout[s].cartItems) THEN "stock" ELSE "clear"]_vars
  /\ [][\A s \in Sessions, fail \in BOOLEAN :
          CheckoutClearCart(s, fail)
          => /\ outcome' = Success
             /\ cartPage'[s] = EmptyCartPage
             /\ checkout[s].log = ExpectedLog(checkout[s])
             /\ UNCHANGED <<orders, order_items, products>>]_vars
  /\ [][(outcome' = CheckoutFailure /\ outcome # CheckoutFailure)
          => \E s \in Sessions :
               /\ checkout[s].pc \in {"idle", "order_items"}
               /\ checkout'[s].pc = "idle"
               /\ \/ \E a \in Addresses, fail \in BOOLEAN : CheckoutBegin(s, a, fail)
                  \/ \E fail \in BOOLEAN : CheckoutInsertItems(s, fail)]_vars

C25_Witness ==
  /\ outcome = Success
  /\ has_role("ani", "admin")
  /\ \E o \in orders :
       /\ Cardinality(ItemsOfOrder(order_items, o.id)) = 2
       /\ \E r \in ItemsOfOrder(order_items, o.id) : r.product_id = "p1"
  /\ products["p1"].stock = MaxStock
  /\ products["p2"].stock = 0
  /\ Cardinality(cart_items) = 2

(* C26: a checkout works on the lines its Cart page held when it was       *)
(* invoked: the order's total is the total of those lines and its order    *)
(* items are those lines (product, name, price, quantity), whatever the    *)
(* stored cart holds by then; and its cart delete, when applied, removes   *)
(* every stored item of the cart, the ones that are in no line of the      *)
(* order included.                                                         *)
StoredLines(cid) ==
  {<<r.product_id, r.quantity>> : r \in {x \in cart_items : x.cart_id = cid}}
PageLines(cartItems) ==
  {<<cartItems[i].products.id, cartItems[i].quantity>> : i \in 1..Len(cartItems)}
OrderLines(I, orderId) ==
  {<<r.product_id, r.quantity>> : r \in ItemsOfOrder(I, orderId)}
C26_OrderFromPageDeleteFromStore ==
  /\ [][\A s \in Sessions, a \in Addresses :
          (CheckoutBegin(s, a, FALSE) /\ checkout'[s].pc # "idle")
          => /\ checkout'[s].cartItems = cartPage[s].cartItems
             /\ checkout'[s].cartId = cartPage[s].cartId
             /\ \E o \in orders' \ orders :
                  /\ o.id = checkout'[s].order_id
                  /\ o.total_amount = calculateTotal(cartPage[s].cartItems)]_vars
  /\ [][\A s \in Sessions :
          (CheckoutInsertItems(s, FALSE) /\ checkout'[s].pc # "idle")
          => /\ checkout'[s].cartItems = checkout[s].cartItems
             /\ OrderLines(order_items', checkout[s].order_id)
                  = PageLines(checkout[s].cartItems)]_vars
  /\ [][\A s \in Sessions :
          CheckoutClearCart(s, FALSE)
          => /\ OrderLines(order_items', checkout[s].order_id)
                  = PageLines(checkout[s].cartItems)
             /\ cart_items' = {r \in cart_items : r.cart_id # checkout[s].cartId}
             /\ StoredLines(checkout[s].cartId)' = {}]_vars

C26_Witness ==
  LET co == checkout["s1"]
  IN  /\ co.pc = "clear"
      /\ PageLines(co.cartItems) = {<<"p1", 1>>}
      /\ OrderLines(order_items, co.order_id) = {<<"p1", 1>>}
      /\ StoredLines(co.cartId) = {<<"p1", 2>>, <<"p2", 1>>}
      /\ \E o \in orders : o.id = co.order_id /\ o.total_amount = 8000

(* C27: an addToCart call of a signed-in identity for product p with       *)
(* quantity q >= 1 changes no product, no order, no order item and no cart *)
(* item other than the identity's line for p; when it reports success the  *)
(* identity's cart holds exactly one line for p, whose quantity is the     *)
(* quantity the line had before plus q (q when there was no line); when it *)
(* reports an error the cart items are unchanged.  An addToCart call in a  *)
(* browser that is not signed in changes no stored data and no page.       *)
LinesFor(C, I, u, p) ==
  {r \in I : r.product_id = p /\ \E c \in C : c.id = r.cart_id /\ c.user_id = u}
PreviousQuantity(u, p) ==
  IF LinesFor(carts, cart_items, u, p) = {} THEN 0
  ELSE (CHOOSE r \in LinesFor(carts, cart_items, u, p) : TRUE).quantity
AcceptedEdit(s) ==
  /\ adminPage.editingProduct # NoProduct
  /\ handleProductSubmit(s, adminPage.editingProduct, adminPage.productForm, FALSE)
  /\ outcome' = "Produk berhasil diupdate"
FormAsFilled(row) ==
  /\ adminPage.productForm.name = row.name
  /\ adminPage.productForm.price = toString(row.price)
  /\ adminPage.productForm.stock = toString(row.stock)
  /\ adminPage.productForm.description = <<>>
  /\ adminPage.productForm.dosage = <<>>
  /\ adminPage.productForm.category_id = ""
  /\ adminPage.productForm.slug = <<>>
C28_EditOverwritesUnfilledFields ==
  /\ [][\A s \in Sessions, id \in ProductIds :
          handleEditProduct(s, id)
          => /\ adminPage'.editingProduct = id
             /\ FormAsFilled(adminPage.products[id])'
             /\ UNCHANGED dbVars]_vars
  /\ [][\A s \in Sessions :
          AcceptedEdit(s)
          => LET id == adminPage.editingProduct
                 form == adminPage.productForm
             IN  /\ products'[id].name = form.name
                 /\ products'[id].price = parseFloat(form.price)
                 /\ products'[id].stock = parseInt(form.stock)
                 /\ products'[id].description = form.description
                 /\ products'[id].dosage = form.dosage
                 /\ products'[id].category_id =
                      (IF form.category_id = "" THEN NoCategory ELSE form.category_id)
                 /\ products'[id].slug = Slug(form.name)
                 /\ products'[id].is_popular = products[id].is_popular
                 /\ DOMAIN products' = DOMAIN products
                 /\ \A p \in DOMAIN products \ {id} : products'[p] = products[p]]_vars
  /\ [][\A s \in Sessions :
          (AcceptedEdit(s) /\ FormAsFilled(adminPage.products[adminPage.editingProduct]))
          => LET id == adminPage.editingProduct
                 row == adminPage.products[id]
             IN  products'[id] =
                   [name |-> row.name, slug |-> Slug(row.name), description |-> <<>>,
                    price |-> row.price, stock |-> row.stock, category_id |-> NoCategory,
                    dosage |-> <<>>, is_popular |-> products[id].is_popular]]_vars

C28_Witness ==
  /\ outcome = "Produk berhasil diupdate"
  /\ products["p2"] =
       [name |-> <<"b", "a">>, slug |-> <<"b", "a">>, description |-> <<>>,
        price |-> 12000, stock |-> 1, category_id |-> NoCategory, dosage |-> <<>>,
        is_popular |-> TRUE]
  /\ products["p1"].description = <<"d", "3">>
  /\ products["p1"].category_id = "c2"
  /\ products["p1"].dosage = <<>>

====
